---- MODULE Spec2Model ----
(***************************************************************************)
(* Network-Mapper: the concurrent scan of rust-network-mapper.rs (main,    *)
(* scan_host, guess_os, generate_interactive_visualization) and the        *)
(* revised graph builder of rust-network-mapper-adv-viz.rs.                *)
(*                                                                         *)
(* Representation.  A u32 address value is the pair <<net, host>> of its   *)
(* upper 24 bits and its lower 8 bits (the value is net * 256 + host), so  *)
(* that 255.255.255.255 is representable.  An Ipv4Addr is its four octets. *)
(* The string of an address is the tuple of its four octets, the subnet    *)
(* string "A.B.C.0/24" is the tuple <<A, B, C, 0, 24>>.                    *)
(***************************************************************************)
EXTENDS Integers, Sequences, FiniteSets

VARIABLES start_ip, end_ip, listeners, iter, tasks, permits, joined, results,
          main_pc, stdout, file, graph, faults_left, reordered

vars == <<start_ip, end_ip, listeners, iter, tasks, permits, joined, results,
          main_pc, stdout, file, graph, faults_left, reordered>>

(* ---------------------------- bounds ----------------------------------- *)

\* max_concurrent_scans of main, scaled down from 100 so that ranges of
\* three times the capacity are explored.
max_concurrent_scans == 2

\* Number of abnormal task terminations injected in one run of a small range
\* (two, so that a second failure behind the first one is explored).
MaxFaults == 2

\* Largest range, in addresses, explored with every configuration of
\* listeners and with task failures.
SmallRange == 4

\* Largest range scanned, in addresses.
MaxRange == 6

\* Option<T>: None is the empty sequence, Some(x) the one-element sequence
None == <<>>

Some(x) == <<x>>

(* ---------------------------- u32 / Ipv4Addr --------------------------- *)

NetMod == 16777216

U32Lt(a, b) == a[1] < b[1] \/ (a[1] = b[1] /\ a[2] < b[2])

U32Le(a, b) == a = b \/ U32Lt(a, b)

\* a + 1 on 32 bits (wrapping)
U32Succ(a) ==
    IF a[2] < 255 THEN <<a[1], a[2] + 1>> ELSE <<(a[1] + 1) % NetMod, 0>>

\* b - a for a <= b
U32Diff(a, b) == (b[1] - a[1]) * 256 + (b[2] - a[2])

RECURSIVE U32Add(_, _)
U32Add(a, n) == IF n = 0 THEN a ELSE U32Add(U32Succ(a), n - 1)

\* u32::from(Ipv4Addr)
U32FromIp(o) == <<o[1] * 65536 + o[2] * 256 + o[3], o[4]>>

\* Ipv4Addr::from(u32)
IpFromU32(v) == <<v[1] \div 65536, (v[1] \div 256) % 256, v[1] % 256, v[2]>>

\* ip.to_string(): the dotted quad, as the tuple of its decimal fields
IpToString(o) == <<o[1], o[2], o[3], o[4]>>

\* variant: the octets are taken one position too far
SubnetStringShifted(o) == <<o[2], o[3], o[4], 0, 24>>

\* format!("{}.{}.{}.0/24", ip.octets()[0], ip.octets()[1], ip.octets()[2])
SubnetString(o) == <<o[1], o[2], o[3], 0, 24>>

(* ---------------------------- the range start..=end ------------------- *)

\* u32::from(start_ip)..=u32::from(end_ip)
RangeNew(s, e) == [start |-> U32FromIp(s), end |-> U32FromIp(e), exhausted |-> FALSE]

\* variant: the half-open range start..end, which leaves out end
RangeIsEmptyExclusive(it) == it.exhausted \/ ~U32Lt(it.start, it.end)

\* variant: only the exhausted flag is tested, start <= end is not
RangeIsEmptyNoOrder(it) == it.exhausted

\* RangeInclusive::is_empty
RangeIsEmpty(it) == it.exhausted \/ ~U32Le(it.start, it.end)

\* RangeInclusive::next on a non-empty range: the item and the iterator after
RangeNext(it) ==
    IF U32Lt(it.start, it.end)
    THEN [item |-> it.start, it |-> [it EXCEPT !.start = U32Succ(it.start)]]
    ELSE [item |-> it.start, it |-> [it EXCEPT !.exhausted = TRUE]]

(* ---------------------------- scan_host -------------------------------- *)

ports_to_scan == <<21, 22, 80, 443, 3306, 5432>>

Contains(seq, x) == \E k \in 1..Len(seq) : seq[k] = x

\* variant: one of the ports 22 and 80 is enough for Linux
guess_osEither(open_ports) ==
    IF Contains(open_ports, 22) \/ Contains(open_ports, 80) THEN "Linux"
    ELSE IF Contains(open_ports, 3389) THEN "Windows"
    ELSE "Unknown"

guess_os(open_ports) ==
    IF Contains(open_ports, 22) /\ Contains(open_ports, 80) THEN "Linux"
    ELSE IF Contains(open_ports, 3389) THEN "Windows"
    ELSE "Unknown"

\* timeout(timeout_duration, TcpStream::connect((ip, port))) is Ok(Ok(_))
Connects(ls, ip, port) == <<ip, port>> \in ls

\* variant: a record is built for a host without any open port too
ScanResultAlways(ip, open_ports) ==
    Some([ip |-> IpToString(ip), open_ports |-> open_ports,
          os_guess |-> guess_os(open_ports), subnet |-> SubnetString(ip)])

\* the value scan_host returns once every port was probed
ScanResult(ip, open_ports) ==
    IF open_ports # <<>>
    THEN Some([ip |-> IpToString(ip), open_ports |-> open_ports,
               os_guess |-> guess_os(open_ports), subnet |-> SubnetString(ip)])
    ELSE None

\* a task as tokio::spawn creates it: it has yet to acquire its permit
NewTask(ip) ==
    [ip |-> ip, st |-> "waiting", admitted |-> FALSE, idx |-> 0,
     probed |-> <<>>, open_ports |-> <<>>, output |-> None]

Running(t) == t.st \in {"waiting", "scanning"}

Ended(t) == ~Running(t)

\* the task's future is dropped before it returned, by a panic or by the
\* shutdown of the runtime: its locals are gone, it has no output
Dropped(t, st) ==
    [t EXCEPT !.st = st, !.idx = 0, !.probed = <<>>, !.open_ports = <<>>]

HoldsPermit(t) == t.st = "scanning"

(* ---------------------------- generate_interactive_visualization ------ *)

\* the keys of the HashMap subnets
SubnetKeys(rs) == {rs[k].subnet : k \in 1..Len(rs)}

\* subnets[key]: the results of that subnet, in the order they were pushed
SubnetGroup(rs, key) == SelectSeq(rs, LAMBDA r : r.subnet = key)

\* the orders in which a HashMap may iterate over its keys
IterationOrders(keys) ==
    {o \in [1..Cardinality(keys) -> keys] :
        \A a, b \in 1..Cardinality(keys) : a # b => o[a] # o[b]}

\* rust-network-mapper.rs: one node per result, no other node
BasicNodes(rs) ==
    [k \in 1..Len(rs) |->
        [id |-> rs[k].ip, os |-> rs[k].os_guess, subnet |-> rs[k].subnet]]

\* variant: only the first device of a subnet is linked
GroupLinksFirstOnly(key, devices) == <<[source |-> key, target |-> devices[1].ip]>>

\* the links of one subnet: devices.iter().map(...)
GroupLinks(key, devices) ==
    [k \in 1..Len(devices) |-> [source |-> key, target |-> devices[k].ip]]

\* rust-network-mapper.rs: subnets.iter().flat_map(...), in iteration order
RECURSIVE BasicLinks(_, _)
BasicLinks(rs, order) ==
    IF order = <<>> THEN <<>>
    ELSE GroupLinks(Head(order), SubnetGroup(rs, Head(order)))
            \o BasicLinks(rs, Tail(order))

\* rust-network-mapper-adv-viz.rs: the device nodes
AdvDeviceNodes(rs) ==
    [k \in 1..Len(rs) |->
        [id |-> rs[k].ip, os |-> rs[k].os_guess, subnet |-> rs[k].subnet,
         ports |-> rs[k].open_ports, type |-> "device"]]

\* rust-network-mapper-adv-viz.rs: subnets.keys().map(...), in iteration order
AdvSubnetNodes(order) ==
    [k \in 1..Len(order) |-> [id |-> order[k], type |-> "subnet"]]

\* rust-network-mapper-adv-viz.rs: results.iter().map(...)
AdvLinks(rs) ==
    [k \in 1..Len(rs) |-> [source |-> rs[k].subnet, target |-> rs[k].ip]]

\* the json data of rust-network-mapper.rs
BasicGraph(rs, order) ==
    [build |-> "basic", nodes |-> BasicNodes(rs), links |-> BasicLinks(rs, order)]

\* the json data of rust-network-mapper-adv-viz.rs
AdvGraph(rs, order) ==
    [build |-> "adv", nodes |-> AdvDeviceNodes(rs) \o AdvSubnetNodes(order),
     links |-> AdvLinks(rs)]

(* ---------------------------- inputs ----------------------------------- *)

RangeLens == {1, 3, MaxRange}

\* ranges that end at 255.255.255.255
TopRanges == {<<<<255, 255, 255, 256 - n>>, <<255, 255, 255, 255>>>> : n \in RangeLens}

\* ranges that start at 10.0.0.254 and cross into 10.0.1.0/24
CrossRanges ==
    {<<<<10, 0, 0, 254>>, IpFromU32(U32Add(U32FromIp(<<10, 0, 0, 254>>), n - 1))>> :
        n \in {2, 4}}

\* ranges with start > end
ReversedRanges == {<<<<10, 0, 0, 5>>, <<10, 0, 0, 2>>>>, <<<<10, 0, 1, 0>>, <<10, 0, 0, 255>>>>}

Ranges == TopRanges \cup CrossRanges \cup ReversedRanges
            \cup {<<<<10, 0, 0, 1>>, <<10, 0, 0, 3>>>>}

\* the addresses start..=end, as a set
AddrsOf(r) ==
    IF U32Le(U32FromIp(r[1]), U32FromIp(r[2]))
    THEN {IpFromU32(U32Add(U32FromIp(r[1]), n)) :
            n \in 0..U32Diff(U32FromIp(r[1]), U32FromIp(r[2]))}
    ELSE {}

ListenerConfigs == {"none", "even", "mixed", "partial"}

OpenPortsOf(cfg, ip) ==
    CASE cfg = "none" -> {}
      [] cfg = "even" -> IF ip[4] % 2 = 0 THEN {22, 80} ELSE {}
      [] cfg = "mixed" -> IF ip[4] % 3 = 0 THEN {21, 443}
                          ELSE IF ip[4] % 3 = 1 THEN {}
                          ELSE {22, 80, 5432}
      [] cfg = "partial" -> IF ip[4] % 4 = 0 THEN {22, 3306}
                            ELSE IF ip[4] % 4 = 1 THEN {80, 443}
                            ELSE IF ip[4] % 4 = 2 THEN {22, 80}
                            ELSE {}

ListenersOf(cfg, r) ==
    UNION {{<<ip, p>> : p \in OpenPortsOf(cfg, ip)} : ip \in AddrsOf(r)}

\* the runs explored: every range with every configuration of listeners, the
\* ranges of more than SmallRange addresses with the mixed configuration only
Scenarios ==
    {sc \in Ranges \X ListenerConfigs :
        Cardinality(AddrsOf(sc[1])) <= SmallRange \/ sc[2] = "mixed"}

(* ---------------------------- main ------------------------------------- *)

\* variant: the renderer is called before the results are printed
NextPcRenderFirst(pc) ==
    CASE pc = "join" -> "render"
      [] pc = "render" -> "print"
      [] pc = "print" -> "done"

\* the statement of main that follows the join loop, the print, the renderer
NextPc(pc) ==
    CASE pc = "join" -> "print"
      [] pc = "print" -> "render"
      [] pc = "render" -> "done"

MainRunning == main_pc \in {"spawn", "join"}

Init ==
    /\ \E sc \in Scenarios :
        /\ start_ip = sc[1][1]
        /\ end_ip = sc[1][2]
        /\ listeners = ListenersOf(sc[2], sc[1])
        /\ iter = RangeNew(sc[1][1], sc[1][2])
    /\ tasks = <<>>
    /\ permits = max_concurrent_scans
    /\ joined = {}
    /\ results = <<>>
    /\ main_pc = "spawn"
    /\ stdout = None
    /\ file = "untouched"
    /\ graph = None
    /\ faults_left = IF Cardinality(AddrsOf(<<start_ip, end_ip>>)) <= SmallRange THEN MaxFaults ELSE 0
    /\ reordered = FALSE

\* for ip in start..=end { tasks.push(tokio::spawn(...)) }
Spawn ==
    /\ main_pc = "spawn"
    /\ IF RangeIsEmpty(iter)
       THEN /\ main_pc' = "join"
            /\ UNCHANGED <<iter, tasks>>
       ELSE /\ iter' = RangeNext(iter).it
            /\ tasks' = Append(tasks, NewTask(IpFromU32(RangeNext(iter).item)))
            /\ UNCHANGED main_pc
    /\ UNCHANGED <<start_ip, end_ip, listeners, permits, joined, results,
                   stdout, file, graph, faults_left, reordered>>

(* ---------------------------- a spawned task --------------------------- *)

\* variant: a task is admitted whether or not a permit is left
CanAcquireUnbounded(p) == TRUE

\* Semaphore::acquire completes only when a permit is available
CanAcquire(p) == p > 0

\* variant: the permit is forgotten, never given back
DropPermitForgotten(t, p) == p

\* dropping _permit when the task's future ends gives its permit back
DropPermit(t, p) == IF HoldsPermit(t) THEN p + 1 ELSE p

\* let _permit = semaphore.acquire().await.unwrap();
Acquire(i) ==
    /\ MainRunning
    /\ tasks[i].st = "waiting"
    /\ CanAcquire(permits)
    /\ permits' = permits - 1
    /\ tasks' = [tasks EXCEPT ![i].st = "scanning", ![i].admitted = TRUE]
    /\ UNCHANGED <<start_ip, end_ip, listeners, iter, joined, results,
                   main_pc, stdout, file, graph, faults_left, reordered>>

\* variant: the port loop is left at the first port that does not connect
ProbeStepStopAtClosed(t, ls) ==
    LET port == ports_to_scan[t.idx + 1]
        open == IF Connects(ls, t.ip, port) THEN Append(t.open_ports, port)
                ELSE t.open_ports
    IN  IF t.idx + 1 < Len(ports_to_scan) /\ Connects(ls, t.ip, port)
        THEN [t EXCEPT !.idx = t.idx + 1, !.probed = Append(t.probed, port),
                       !.open_ports = open]
        ELSE [t EXCEPT !.idx = t.idx + 1, !.probed = Append(t.probed, port),
                       !.open_ports = open,
                       !.st = "finished", !.output = ScanResult(t.ip, open)]

\* the task after one more iteration of scan_host's port loop: one connect
\* to the next port, recorded in probed; after the last port scan_host
\* returns and the task ends
ProbeStep(t, ls) ==
    LET port == ports_to_scan[t.idx + 1]
        open == IF Connects(ls, t.ip, port) THEN Append(t.open_ports, port)
                ELSE t.open_ports
    IN  IF t.idx + 1 < Len(ports_to_scan)
        THEN [t EXCEPT !.idx = t.idx + 1, !.probed = Append(t.probed, port),
                       !.open_ports = open]
        ELSE [t EXCEPT !.idx = t.idx + 1, !.probed = Append(t.probed, port),
                       !.open_ports = open,
                       !.st = "finished", !.output = ScanResult(t.ip, open)]

Probe(i) ==
    /\ MainRunning
    /\ tasks[i].st = "scanning"
    /\ tasks' = [tasks EXCEPT ![i] = ProbeStep(tasks[i], listeners)]
    /\ permits' = IF Ended(tasks'[i]) THEN DropPermit(tasks[i], permits) ELSE permits
    /\ reordered' = (reordered \/ (Ended(tasks'[i]) /\ \E j \in 1..(i - 1) : Running(tasks[j])))
    /\ UNCHANGED <<start_ip, end_ip, listeners, iter, joined, results,
                   main_pc, stdout, file, graph, faults_left>>

\* the task terminates abnormally: the unwrap of a failed acquire panics, or
\* the run of scan_host panics; unwinding drops _permit
Fault(i) ==
    /\ MainRunning
    /\ faults_left > 0
    /\ Running(tasks[i])
    /\ tasks' = [tasks EXCEPT ![i] = Dropped(tasks[i], "panicked")]
    /\ permits' = DropPermit(tasks[i], permits)
    /\ faults_left' = faults_left - 1
    /\ reordered' = (reordered \/ \E j \in 1..(i - 1) : Running(tasks[j]))
    /\ UNCHANGED <<start_ip, end_ip, listeners, iter, joined, results,
                   main_pc, stdout, file, graph>>

(* ---------------------------- the join loop ---------------------------- *)

Min(S) == CHOOSE x \in S : \A y \in S : x <= y

Unjoined(ts, jd) == {i \in 1..Len(ts) : i \notin jd}

\* variant: the handles are awaited in the order the tasks end
NextToJoinCompletion(ts, jd) == {i \in Unjoined(ts, jd) : Ended(ts[i])}

\* variant: the handles are awaited from the last one back
NextToJoinLast(ts, jd) ==
    IF Unjoined(ts, jd) = {} THEN {}
    ELSE {CHOOSE x \in Unjoined(ts, jd) : \A y \in Unjoined(ts, jd) : y <= x}

\* for task in tasks: the handle awaited next is the first not yet awaited
NextToJoin(ts, jd) == IF Unjoined(ts, jd) = {} THEN {} ELSE {Min(Unjoined(ts, jd))}

\* variant: the handle is polled once, whether or not the task has ended
JoinReadyAlways(t) == TRUE

\* task.await completes when the task has ended
JoinReady(t) == Ended(t)

\* variant: the error of a task that panicked is swallowed
JoinOutcomeIgnored(t) == "Ok"

\* task.await: Err(JoinError) for a task that panicked
JoinOutcome(t) == IF t.st = "panicked" THEN "Err" ELSE "Ok"

\* variant: the error only ends the join loop, main goes on
OnJoinErrorBreak == "print"

\* task.await?: the error is returned from main at once
OnJoinError == "aborted"

\* main returns: the runtime shuts down and drops the tasks still running
Shutdown(ts) ==
    [k \in 1..Len(ts) |-> IF Running(ts[k]) THEN Dropped(ts[k], "cancelled") ELSE ts[k]]

HeldPermits(ts) == Cardinality({k \in 1..Len(ts) : HoldsPermit(ts[k])})

\* if let Some(result) = task.await? { results.push(result); }
Join ==
    /\ main_pc = "join"
    /\ IF Unjoined(tasks, joined) = {}
       THEN /\ main_pc' = NextPc("join")
            /\ UNCHANGED <<tasks, permits, joined, results>>
       ELSE \E j \in NextToJoin(tasks, joined) :
            /\ JoinReady(tasks[j])
            /\ joined' = joined \cup {j}
            /\ IF JoinOutcome(tasks[j]) = "Err"
               THEN /\ main_pc' = OnJoinError
                    /\ tasks' = Shutdown(tasks)
                    /\ permits' = permits + (HeldPermits(tasks) - HeldPermits(Shutdown(tasks)))
                    /\ UNCHANGED results
               ELSE /\ results' = results \o tasks[j].output
                    /\ UNCHANGED <<main_pc, tasks, permits>>
    /\ UNCHANGED <<start_ip, end_ip, listeners, iter, stdout, file, graph,
                   faults_left, reordered>>

\* println!("{}", serde_json::to_string_pretty(&results)?);
PrintResults ==
    /\ main_pc = "print"
    /\ stdout' = Some(results)
    /\ main_pc' = NextPc("print")
    /\ UNCHANGED <<start_ip, end_ip, listeners, iter, tasks, permits, joined,
                   results, file, graph, faults_left, reordered>>

IoOutcomes == {"create_failed", "write_failed", "ok"}

\* generate_interactive_visualization(&results, &args.output_file)?
\* io: File::create fails, write_all fails, or both succeed
Render(g, io) ==
    /\ main_pc = "render"
    /\ IF io = "create_failed"
       THEN UNCHANGED <<file, graph>>
       ELSE /\ graph' = Some(g)
            /\ file' = IF io = "ok" THEN "written" ELSE "truncated"
    /\ main_pc' = IF io = "ok" THEN NextPc("render") ELSE "render_failed"
    /\ UNCHANGED <<start_ip, end_ip, listeners, iter, tasks, permits, joined,
                   results, stdout, faults_left, reordered>>

\* the renderer of rust-network-mapper.rs
RenderBasic ==
    \E order \in IterationOrders(SubnetKeys(results)), io \in IoOutcomes :
        Render(BasicGraph(results, order), io)

\* the renderer of rust-network-mapper-adv-viz.rs
RenderAdv ==
    \E order \in IterationOrders(SubnetKeys(results)), io \in IoOutcomes :
        Render(AdvGraph(results, order), io)

Next ==
    \/ Spawn
    \/ \E i \in 1..Len(tasks) : Acquire(i)
    \/ \E i \in 1..Len(tasks) : Probe(i)
    \/ \E i \in 1..Len(tasks) : Fault(i)
    \/ Join
    \/ PrintResults
    \/ RenderBasic
    \/ RenderAdv

Spec == Init /\ [][Next]_vars

\* the steps of the program itself, no task failure injected
NextNoFault ==
    \/ Spawn
    \/ \E i \in 1..Len(tasks) : Acquire(i)
    \/ \E i \in 1..Len(tasks) : Probe(i)
    \/ Join
    \/ PrintResults
    \/ RenderBasic
    \/ RenderAdv

\* a poll of the i-th spawned task
TaskStep(i) == i \in 1..Len(tasks) /\ (Acquire(i) \/ Probe(i))

\* the runtime polls every task that can make progress, main included, and
\* every connect ends, by connecting or by its timeout
LiveSpec ==
    /\ Init
    /\ [][NextNoFault]_vars
    /\ WF_vars(Spawn)
    /\ WF_vars(Join)
    /\ WF_vars(PrintResults)
    /\ \A i \in 1..MaxRange : WF_vars(TaskStep(i))

(* ======================================================================= *)
(* Properties                                                              *)
(* ======================================================================= *)

ScanningTasks == {k \in 1..Len(tasks) : tasks[k].st = "scanning"}

StartLeEnd == U32Le(U32FromIp(start_ip), U32FromIp(end_ip))

\* end - start + 1 for start <= end
RangeCount == U32Diff(U32FromIp(start_ip), U32FromIp(end_ip)) + 1

\* C1: at most max_concurrent_scans tasks hold a permit and run scan_host at
\* any time, whatever the size of the range, and a task that has probed a
\* port has acquired a permit before.
C1_ConcurrencyBound ==
    /\ Cardinality(ScanningTasks) <= max_concurrent_scans
    /\ \A k \in 1..Len(tasks) :
        (tasks[k].idx > 0 \/ tasks[k].st \in {"scanning", "finished"}) => tasks[k].admitted

\* a range of at least three times the capacity, the capacity in use, a task
\* held back and a task that has probed
C1_Witness ==
    /\ Len(tasks) >= 3 * max_concurrent_scans
    /\ Cardinality(ScanningTasks) = max_concurrent_scans
    /\ \E k \in 1..Len(tasks) : tasks[k].st = "waiting"
    /\ \E k \in ScanningTasks : tasks[k].idx > 0

\* strictly ascending by the numeric value of the address
Ascending(rs) ==
    \A a, b \in 1..Len(rs) :
        a < b => U32Lt(U32FromIp(rs[a].ip), U32FromIp(rs[b].ip))

\* C2: the result list built by main, and the list it prints, is strictly
\* ascending by numeric address, whatever the order in which the tasks end.
C2_ResultsAscending ==
    /\ Ascending(results)
    /\ stdout # None => Ascending(stdout[1])

\* a printed list of at least two records of a run in which a task ended
\* before a task of a lower address
C2_Witness ==
    /\ stdout # None
    /\ Len(stdout[1]) >= 2
    /\ reordered

MainPastJoin == main_pc \in {"print", "render", "done", "render_failed"}

\* C3: once a task has terminated abnormally main never gets past its join
\* loop and nothing is printed.
C3_FailureAbortsScan ==
    (\E k \in 1..Len(tasks) : tasks[k].st = "panicked") =>
        (stdout = None /\ ~MainPastJoin)

\* the scan aborted after records of other hosts had been collected
C3_Witness ==
    /\ main_pc = "aborted"
    /\ results # <<>>
    /\ stdout = None

\* C4: every permit taken is held by exactly one running task, and when all
\* the spawned tasks have ended, normally or not, the semaphore is back at
\* its full capacity.
C4_PermitsReleased ==
    /\ permits + HeldPermits(tasks) = max_concurrent_scans
    /\ (\A k \in 1..Len(tasks) : Ended(tasks[k])) => permits = max_concurrent_scans

\* every task of the range has ended, one of them by a failure while it held
\* a permit, another one normally
C4_Witness ==
    /\ main_pc = "join"
    /\ Len(tasks) >= 2
    /\ \A k \in 1..Len(tasks) : Ended(tasks[k])
    /\ \E k \in 1..Len(tasks) : tasks[k].st = "panicked" /\ tasks[k].admitted
    /\ \E k \in 1..Len(tasks) : tasks[k].st = "finished"
    /\ permits = max_concurrent_scans

\* C5: for start <= end the tasks spawned are those of the addresses start,
\* start + 1, ... in that order, end - start + 1 of them once the loop is
\* over, and no more results than that are collected or printed.
C5_OneTaskPerAddress ==
    StartLeEnd =>
        /\ Len(tasks) <= RangeCount
        /\ \A k \in 1..Len(tasks) :
            tasks[k].ip = IpFromU32(U32Add(U32FromIp(start_ip), k - 1))
        /\ main_pc # "spawn" => Len(tasks) = RangeCount
        /\ Len(results) <= RangeCount
        /\ stdout # None => Len(stdout[1]) <= RangeCount

\* a printed scan of at least three addresses that ends at 255.255.255.255
C5_Witness ==
    /\ end_ip = <<255, 255, 255, 255>>
    /\ Len(tasks) >= 3
    /\ Len(tasks) = RangeCount
    /\ stdout # None

\* C6: with start > end no task is spawned, the scan never aborts, the list
\* printed is empty and so is the graph.
C6_EmptyRange ==
    ~StartLeEnd =>
        /\ tasks = <<>>
        /\ results = <<>>
        /\ main_pc # "aborted"
        /\ stdout # None => stdout[1] = <<>>
        /\ graph # None => (graph[1].nodes = <<>> /\ graph[1].links = <<>>)

\* a scan with start > end that ran to its end
C6_Witness ==
    /\ ~StartLeEnd
    /\ main_pc = "done"
    /\ stdout = Some(<<>>)
    /\ graph # None

\* the kind a node is tagged with, None for a node without a tag
NodeKind(n) == IF "type" \in DOMAIN n THEN Some(n.type) ELSE None

\* the nodes of g of the given kind and id
NodesOf(g, kind, id) ==
    {k \in 1..Len(g.nodes) : NodeKind(g.nodes[k]) = Some(kind) /\ g.nodes[k].id = id}

\* one device node per result, one subnet node per distinct subnet, no other node
NodesAsSpecified(g, rs) ==
    /\ \A k \in 1..Len(rs) : Cardinality(NodesOf(g, "device", rs[k].ip)) = 1
    /\ \A key \in SubnetKeys(rs) : Cardinality(NodesOf(g, "subnet", key)) = 1
    /\ Len(g.nodes) = Len(rs) + Cardinality(SubnetKeys(rs))

\* C7: the graph built has exactly one node tagged device per result and
\* exactly one node tagged subnet per distinct subnet, and no other node.
C7_GraphNodes == graph # None => NodesAsSpecified(graph[1], results)

\* the same, of the graph of rust-network-mapper-adv-viz.rs only
C7_AdvGraphNodes ==
    (graph # None /\ graph[1].build = "adv") => NodesAsSpecified(graph[1], results)

\* the links of g from source to target
LinksOf(g, source, target) ==
    {k \in 1..Len(g.links) : g.links[k] = [source |-> source, target |-> target]}

\* C8: the links of the graph are one link per result r, from r.subnet to
\* r.ip, and no other link, whatever order the subnet map iterates in.
C8_GraphEdges ==
    graph # None =>
        /\ Len(graph[1].links) = Len(results)
        /\ \A k \in 1..Len(results) :
            Cardinality(LinksOf(graph[1], results[k].subnet, results[k].ip)) = 1

\* a graph of rust-network-mapper.rs over two subnets whose links are not in
\* the order of the results
C8_Witness ==
    /\ graph # None
    /\ graph[1].build = "basic"
    /\ Cardinality(SubnetKeys(results)) >= 2
    /\ Len(results) >= 3
    /\ graph[1].links # AdvLinks(results)

NodeIds(g) == {g.nodes[k].id : k \in 1..Len(g.nodes)}

EndpointsAreNodes(g) ==
    \A k \in 1..Len(g.links) :
        g.links[k].source \in NodeIds(g) /\ g.links[k].target \in NodeIds(g)

\* C9: both endpoints of every link of the graph are ids of nodes of the
\* graph.
C9_GraphWellFormed == graph # None => EndpointsAreNodes(graph[1])

\* the same, of the graph of rust-network-mapper-adv-viz.rs only
C9_AdvGraphWellFormed ==
    (graph # None /\ graph[1].build = "adv") => EndpointsAreNodes(graph[1])

RendererInvoked ==
    file # "untouched" \/ graph # None \/ main_pc \in {"done", "render_failed"}

AllJoined == Unjoined(tasks, joined) = {}

\* C10: the renderer runs, and can fail, only after the complete result list
\* was printed, and what was printed never changes afterwards.
C10_RenderAfterOutput ==
    [][/\ RendererInvoked' => (stdout' = Some(results') /\ AllJoined')
       /\ stdout # None => stdout' = stdout]_vars

\* the renderer failed after a list of records had been printed
C10_Witness ==
    /\ main_pc = "render_failed"
    /\ stdout # None
    /\ stdout[1] # <<>>

\* the first n ports of the probe list
FirstPorts(n) == SubSeq(ports_to_scan, 1, n)

\* C11: a task that runs scan_host has probed a prefix of 21, 22, 80, 443,
\* 3306, 5432, each port once and in that order, every step of it adds one
\* probe, the next port, whether or not the last one connected, and a task
\* that finished has probed all six.
C11_SixProbesInOrder ==
    [][\A k \in 1..Len(tasks') :
        /\ tasks'[k].st = "finished" => tasks'[k].probed = ports_to_scan
        /\ tasks'[k].st = "scanning" =>
            /\ Len(tasks'[k].probed) < Len(ports_to_scan)
            /\ tasks'[k].probed = FirstPorts(Len(tasks'[k].probed))
        /\ tasks'[k].st = "waiting" => tasks'[k].probed = <<>>
        /\ (k <= Len(tasks) /\ tasks[k].st = "scanning" /\ Running(tasks'[k])) =>
            Len(tasks'[k].probed) <= Len(tasks[k].probed) + 1]_vars

\* a task finished its six probes although its first port did not connect
\* and a later one did
C11_Witness ==
    \E k \in 1..Len(tasks) :
        /\ tasks[k].st = "finished"
        /\ tasks[k].probed = ports_to_scan
        /\ ~Connects(listeners, tasks[k].ip, 21)
        /\ Connects(listeners, tasks[k].ip, 5432)
        /\ tasks[k].output # None

\* the ports of the probe list that connect at ip
ConnectedPorts(ip) ==
    {ports_to_scan[n] : n \in {m \in 1..Len(ports_to_scan) :
                                Connects(listeners, ip, ports_to_scan[m])}}

SeqToSet(seq) == {seq[n] : n \in 1..Len(seq)}

StrictlyIncreasing(seq) == \A a, b \in 1..Len(seq) : a < b => seq[a] < seq[b]

\* the records that exist: returned by a task, collected by main or printed
Records ==
    UNION {SeqToSet(tasks[k].output) : k \in 1..Len(tasks)}
        \cup SeqToSet(results)
        \cup (IF stdout = None THEN {} ELSE SeqToSet(stdout[1]))

\* C12: a finished task returns a record if and only if one of its six
\* probes connected; the open_ports of a record are the ports that connected,
\* ascending, without duplicates, from the probe list, and never empty.
C12_RecordIffOpenPort ==
    /\ \A k \in 1..Len(tasks) :
        tasks[k].st = "finished" =>
            /\ tasks[k].output # None <=> ConnectedPorts(tasks[k].ip) # {}
            /\ tasks[k].output # None =>
                /\ SeqToSet(tasks[k].output[1].open_ports) = ConnectedPorts(tasks[k].ip)
                /\ tasks[k].output[1].ip = IpToString(tasks[k].ip)
    /\ \A r \in Records :
        /\ r.open_ports # <<>>
        /\ StrictlyIncreasing(r.open_ports)
        /\ SeqToSet(r.open_ports) \subseteq SeqToSet(ports_to_scan)

\* a printed list with a record of several ports, of a range in which another
\* host finished without any open port
C12_Witness ==
    /\ stdout # None
    /\ \E r \in SeqToSet(stdout[1]) : Len(r.open_ports) >= 2
    /\ \E k \in 1..Len(tasks) : tasks[k].st = "finished" /\ tasks[k].output = None

\* the OS label the ports stand for
OsOf(ports) ==
    IF {22, 80} \subseteq ports THEN "Linux"
    ELSE IF 3389 \in ports THEN "Windows"
    ELSE "Unknown"

\* C13: the os_guess of a record is Linux if its open_ports hold 22 and 80,
\* otherwise Windows if they hold 3389, otherwise Unknown; and no record is
\* ever labelled Windows.
C13_OsGuess ==
    \A r \in Records :
        /\ r.os_guess = OsOf(SeqToSet(r.open_ports))
        /\ r.os_guess # "Windows"

\* printed records labelled Linux and Unknown, one of them with port 22 open
\* but not port 80
C13_Witness ==
    /\ stdout # None
    /\ \E r \in SeqToSet(stdout[1]) :
        r.os_guess = "Unknown" /\ Contains(r.open_ports, 22) /\ ~Contains(r.open_ports, 80)
    /\ \E k \in 1..Len(tasks) :
        tasks[k].output # None /\ tasks[k].output[1].os_guess = "Linux"

\* the number of addresses of the range
AddressCount == IF StartLeEnd THEN RangeCount ELSE 0

\* main printed the list after every task of the range was admitted,
\* finished its probes and was joined
ScanCompleted ==
    /\ stdout # None
    /\ Len(tasks) = AddressCount
    /\ \A k \in 1..Len(tasks) :
        tasks[k].st = "finished" /\ tasks[k].admitted /\ k \in joined
    /\ permits = max_concurrent_scans

\* C14: under fair scheduling, with probes that end, every scan runs to
\* completion: every task of the range acquires a permit, finishes and is
\* joined, and main prints the list; no task waits on the semaphore forever.
C14_ScanCompletes == <>ScanCompleted

\* a scan of a range larger than the capacity that ran to completion
C14_Witness ==
    /\ ScanCompleted
    /\ Len(tasks) > max_concurrent_scans

\* the list a sequential scan of the range gives: the addresses in
\* ascending order from the n-th on, each with the listening ports of the
\* probe list, the hosts without one left out
RECURSIVE ExpectedFrom(_)
ExpectedFrom(n) ==
    IF n >= AddressCount THEN <<>>
    ELSE LET ip == IpFromU32(U32Add(U32FromIp(start_ip), n))
             open == SelectSeq(ports_to_scan, LAMBDA p : <<ip, p>> \in listeners)
         IN  (IF open = <<>> THEN <<>>
              ELSE <<[ip |-> ip, open_ports |-> open,
                      os_guess |-> OsOf(SeqToSet(open)),
                      subnet |-> <<ip[1], ip[2], ip[3], 0, 24>>]>>)
                \o ExpectedFrom(n + 1)

\* C15: the list printed is a function of the range and of the listening
\* (address, port) pairs alone: in every interleaving, admission order and
\* completion order it is the list of the sequential scan.
C15_OutputDeterministic == stdout # None => stdout[1] = ExpectedFrom(0)

\* a printed list of several records of a range larger than the capacity, in
\* a run where the tasks did not end in address order
C15_Witness ==
    /\ stdout # None
    /\ Len(tasks) > max_concurrent_scans
    /\ Len(stdout[1]) >= 3
    /\ reordered

\* the first three fields of the address string, then ".0/24"
SubnetOfAddress(str) == <<str[1], str[2], str[3], 0, 24>>

\* the nodes of the graph that carry a subnet field
NodesWithSubnet ==
    IF graph = None THEN {}
    ELSE {n \in SeqToSet(graph[1].nodes) : "subnet" \in DOMAIN n}

IsPrefix(a, b) == Len(a) <= Len(b) /\ SubSeq(b, 1, Len(a)) = a

\* C16: the subnet of every record, and of every node built from one, is the
\* first three octets of its address followed by .0/24; a record returned by
\* a task or collected by main is never changed afterwards.
C16_SubnetDerived ==
    [][/\ \A r \in Records' : r.subnet = SubnetOfAddress(r.ip)
       /\ \A n \in NodesWithSubnet' : n.subnet = SubnetOfAddress(n.id)
       /\ IsPrefix(results, results')
       /\ \A k \in 1..Len(tasks) :
            tasks[k].output # None => tasks'[k].output = tasks[k].output]_vars

\* printed records of two subnets, 10.0.0.0/24 and 10.0.1.0/24, and their graph
C16_Witness ==
    /\ stdout # None
    /\ graph # None
    /\ \E r \in SeqToSet(stdout[1]) : r.subnet = <<10, 0, 0, 0, 24>> /\ r.ip[4] # 0
    /\ \E r \in SeqToSet(stdout[1]) : r.subnet = <<10, 0, 1, 0, 24>>

\* C17: no record is appended to results while a spawned task is still
\* waiting for a permit or probing.
C17_AppendAfterAllEnded ==
    [][results' # results => \A k \in 1..Len(tasks) : Ended(tasks[k])]_vars

\* C17, as the code has it: a record is appended to results only by the join
\* loop of main, after the spawn loop, and it is the record of the task
\* awaited, the first one not yet joined, which has finished as have all
\* tasks of lower addresses; tasks of higher addresses may still be running.
C17_AppendInJoinOrder ==
    [][results' # results =>
        /\ main_pc = "join"
        /\ \E j \in 1..Len(tasks) :
            /\ j \notin joined
            /\ joined' = joined \cup {j}
            /\ tasks[j].st = "finished"
            /\ results' = results \o tasks[j].output
            /\ \A i \in 1..(j - 1) : i \in joined /\ Ended(tasks[i])]_vars

\* main has collected a record while a task of a higher address is running
C17_Witness ==
    /\ main_pc = "join"
    /\ results # <<>>
    /\ \E k \in 1..Len(tasks) : Running(tasks[k]) /\ k \notin joined

\* C18: when a task has failed, and so when the scan aborts, the renderer is
\* never called: no graph is built and the output file is neither created
\* nor truncated.
C18_NoRenderAfterAbort ==
    (main_pc = "aborted" \/ \E k \in 1..Len(tasks) : tasks[k].st = "panicked") =>
        /\ graph = None
        /\ file = "untouched"
        /\ main_pc \notin {"render", "done", "render_failed"}

\* the scan aborted although a task had returned a record to draw
C18_Witness ==
    /\ main_pc = "aborted"
    /\ file = "untouched"
    /\ graph = None
    /\ \E k \in 1..Len(tasks) : tasks[k].st = "finished" /\ tasks[k].output # None

\* C19: a failed task is not observed before the join loop reaches it; the
\* handles joined are always the first ones in submission order; when the
\* scan aborts the last task joined is the failed one of the lowest address,
\* every task before it was awaited to its normal end, and no task after it
\* is ever joined, failed or not.
C19_AbortAtFirstFailure ==
    /\ \E n \in 0..Len(tasks) : joined = 1..n
    /\ \A k \in 1..Len(tasks) :
        (tasks[k].st = "panicked" /\ main_pc # "aborted") => k \notin joined
    /\ main_pc = "aborted" =>
        \E j \in joined :
            /\ joined = 1..j
            /\ tasks[j].st = "panicked"
            /\ \A i \in 1..(j - 1) : tasks[i].st = "finished"

\* the scan aborted at a failed task after it had awaited a task of a lower
\* address, and a task of a higher address that failed too was never joined
C19_Witness ==
    /\ main_pc = "aborted"
    /\ \E j \in joined :
        /\ j > 1
        /\ tasks[j].st = "panicked"
        /\ \E h \in (j + 1)..Len(tasks) : tasks[h].st = "panicked" /\ h \notin joined

====
